---- MODULE Spec2Model ----
(***************************************************************************)
(* A model of the scope analyzer of src/scope_analyzer.h over the parse    *)
(* tree of src/parse_tree.h.                                               *)
(*                                                                         *)
(* ScopeAnalyzer::check is a recursive traversal; the model runs it as a   *)
(* state machine whose `stack` holds the pending work of the C++ call      *)
(* stack (loop iterations of check still to run, check_node calls still to *)
(* make, leave_scope calls still to come), one action per loop body and    *)
(* per branch of check_node.                                               *)
(***************************************************************************)
EXTENDS Naturals, Sequences, FiniteSets

(***************************************************************************)
(* Bounds of the model.                                                    *)
(***************************************************************************)
MaxGlobals == 2
MaxFuncs == 2
MaxParams == 2
MaxStmts == 2
MaxArgs == 1
MaxChecks == 2

Names == {"x", "f"}
\* Declared type tags: an ordinary one, the empty string (what the default
\* constructor VariableNode() leaves) and the tag check gives to functions.
Tags == {"int", "", "function"}

BoundedSeq(S, n) == UNION {[1..k -> S] : k \in 0..n}

(***************************************************************************)
(* The parse tree (src/parse_tree.h).  Every node is a record of one       *)
(* shape; kids holds the owned children in the order check_node visits     *)
(* them, with Null for an absent unique_ptr.                               *)
(***************************************************************************)
Null == [kind |-> "null", type |-> "", name |-> "", kids |-> <<>>]
VariableNode(t, n, value) ==
    [kind |-> "Variable", type |-> t, name |-> n, kids |-> <<value>>]
CallNode(n, args) == [kind |-> "Call", type |-> "", name |-> n, kids |-> args]
NameNode(n) == [kind |-> "Name", type |-> "", name |-> n, kids |-> <<>>]
LiteralNode == [kind |-> "Literal", type |-> "int", name |-> "", kids |-> <<>>]
BinaryOpNode(l, r) == [kind |-> "BinaryOp", type |-> "", name |-> "", kids |-> <<l, r>>]
AssignmentNode(n, value) ==
    [kind |-> "Assignment", type |-> "", name |-> n, kids |-> <<value>>]
ReturnNode(value) == [kind |-> "Return", type |-> "", name |-> "", kids |-> <<value>>]
IfNode(c, t, e) == [kind |-> "If", type |-> "", name |-> "", kids |-> <<c, t, e>>]
WhileNode(c, b) == [kind |-> "While", type |-> "", name |-> "", kids |-> <<c, b>>]
ForNode(init, c, inc, b) ==
    [kind |-> "For", type |-> "", name |-> "", kids |-> <<init, c, inc, b>>]
BlockNode(stmts) == [kind |-> "Block", type |-> "", name |-> "", kids |-> stmts]
FunctionNode(n, ps, b) == [name |-> n, params |-> ps, body |-> b]
ProgramNode(gs, fs) == [globals |-> gs, functions |-> fs]

(***************************************************************************)
(* The programs check is run on: parse trees as a caller may build them    *)
(* with the constructors of src/parse_tree.h.  Each family varies one part *)
(* of a program over all names and type tags and keeps the rest small.     *)
(***************************************************************************)
IntX == VariableNode("int", "x", Null)
Atoms == {NameNode(n) : n \in Names} \cup {LiteralNode}
Calls == {CallNode(n, a) : n \in Names, a \in BoundedSeq(Atoms, MaxArgs)}
Exprs ==
    Atoms \cup Calls
    \cup {BinaryOpNode(NameNode(n), e) : n \in Names, e \in {LiteralNode, CallNode("f", <<>>)}}
    \cup {AssignmentNode(n, NameNode(m)) : n, m \in Names}

\* Global declarations in every combination, with or without an initializer.
GlobalDecls ==
    {VariableNode(t, n, v) : t \in Tags, n \in Names,
        v \in {Null, BinaryOpNode(NameNode("x"), CallNode("f", <<>>))}}
GlobalPrograms ==
    {ProgramNode(gs, fs) : gs \in BoundedSeq(GlobalDecls, MaxGlobals),
        fs \in {<<>>, <<FunctionNode("f", <<>>, Null)>>,
                <<FunctionNode("f", <<>>, CallNode("x", <<>>))>>}}

\* One global with each initializer expression.
InitializerPrograms ==
    {ProgramNode(<<VariableNode(t, n, v)>>, fs) : t \in Tags, n \in Names, v \in Exprs,
        fs \in {<<>>, <<FunctionNode("f", <<>>, Null)>>, <<FunctionNode("x", <<>>, Null)>>}}

\* Function declarations in every combination.
FunctionDecls ==
    {FunctionNode(n, ps, b) : n \in Names, ps \in {<<>>, <<IntX>>},
        b \in {Null, NameNode("x"), CallNode("f", <<>>)}}
FunctionPrograms ==
    {ProgramNode(gs, fs) : gs \in {<<>>, <<VariableNode("int", "f", Null)>>},
        fs \in BoundedSeq(FunctionDecls, MaxFuncs)}

\* One function with every parameter list.
ParamDecls == {VariableNode(t, n, Null) : t \in Tags, n \in Names}
ParamPrograms ==
    {ProgramNode(<<>>, <<FunctionNode("f", ps, b)>>) :
        ps \in BoundedSeq(ParamDecls, MaxParams),
        b \in {Null, NameNode("x"), IntX, BlockNode(<<IntX>>),
               BlockNode(<<AssignmentNode("f", NameNode("x"))>>)}}

\* One function whose body is a block of statements.
Stmts ==
    {VariableNode(t, "x", Null) : t \in Tags}
    \cup {VariableNode("int", "f", Null), VariableNode("int", "x", NameNode("x")),
          VariableNode("int", "x", NameNode("f"))}
    \cup {NameNode(n) : n \in Names}
    \cup {AssignmentNode("x", LiteralNode), CallNode("f", <<>>), CallNode("x", <<NameNode("f")>>)}
    \cup {BlockNode(<<IntX>>), BlockNode(<<NameNode("x")>>)}
    \cup {ForNode(IntX, NameNode("x"), Null, IntX),
          IfNode(NameNode("x"), IntX, Null)}
BodyPrograms ==
    {ProgramNode(<<>>, <<FunctionNode("f", ps, BlockNode(ss))>>) :
        ps \in {<<>>, <<IntX>>}, ss \in BoundedSeq(Stmts, MaxStmts)}

\* One function whose body is one statement of each kind.
RichStmts ==
    {ReturnNode(v) : v \in {Null, NameNode("x"), BinaryOpNode(NameNode("x"), NameNode("f"))}}
    \cup {IfNode(c, t, e) : c \in {NameNode("x"), LiteralNode},
            t \in {IntX, BlockNode(<<IntX>>)},
            e \in {Null, NameNode("x"), BlockNode(<<NameNode("x")>>)}}
    \cup {WhileNode(c, b) : c \in {NameNode("x"), CallNode("f", <<>>)},
            b \in {IntX, BlockNode(<<IntX, NameNode("x")>>), Null}}
    \cup {ForNode(i, c, inc, b) : i \in {Null, IntX, VariableNode("", "x", Null)},
            c \in {Null, NameNode("x")},
            inc \in {Null, AssignmentNode("x", LiteralNode)},
            b \in {Null, IntX, NameNode("x"), BlockNode(<<IntX, NameNode("x")>>)}}
    \cup {BlockNode(<<ForNode(i, Null, Null, b), s>>) : i \in {Null, IntX},
            b \in {IntX, BlockNode(<<IntX>>)}, s \in {NameNode("x"), IntX}}
StatementPrograms ==
    {ProgramNode(gs, <<FunctionNode("f", <<>>, b)>>) :
        gs \in {<<>>, <<VariableNode("int", "x", Null)>>}, b \in RichStmts}

\* Nested and sibling blocks.
Simple ==
    {IntX, VariableNode("", "x", Null), VariableNode("function", "f", Null),
     NameNode("x"), AssignmentNode("x", LiteralNode), CallNode("f", <<>>)}
NestedPrograms ==
    {ProgramNode(<<>>, <<FunctionNode("f", <<>>,
        BlockNode(<<a, BlockNode(<<b, c>>), BlockNode(<<d>>)>>))>>) :
        a, b, c, d \in Simple}

\* A global and two functions, with faults in every phase.
CrossPrograms ==
    {ProgramNode(<<VariableNode(t, n, v)>>,
                 <<FunctionNode(n1, <<>>, b1), FunctionNode(n2, <<>>, b2)>>) :
        t \in {"int", "function"}, n \in Names,
        v \in {Null, NameNode("x"), CallNode("f", <<>>)},
        n1, n2 \in Names,
        b1, b2 \in {NameNode("x"), CallNode("f", <<>>), BlockNode(<<IntX>>)}}

\* A for loop with every part present, followed by a statement.
LoopPrograms ==
    {ProgramNode(gs, <<FunctionNode("f", <<>>,
        BlockNode(<<ForNode(VariableNode(t, "x", Null), c, inc, b), s>>))>>) :
        gs \in {<<>>, <<IntX>>}, t \in Tags,
        c \in {NameNode("x"), BinaryOpNode(NameNode("x"), LiteralNode)},
        inc \in {AssignmentNode("x", NameNode("x"))},
        b \in {NameNode("x"), BlockNode(<<NameNode("x")>>)},
        s \in {NameNode("x"), AssignmentNode("x", LiteralNode)}}

Programs ==
    GlobalPrograms \cup InitializerPrograms \cup FunctionPrograms \cup ParamPrograms
    \cup BodyPrograms \cup StatementPrograms \cup NestedPrograms \cup CrossPrograms
    \cup LoopPrograms

(***************************************************************************)
(* The state: the caller's tree, the ScopeAnalyzer object and the pending  *)
(* work of its check call.                                                 *)
(***************************************************************************)
VARIABLES
    program,    \* the ProgramNode handed to check
    scopes,     \* the heap of Scope objects ever allocated; alive = not yet deleted
    current,    \* ScopeAnalyzer::current (an index into scopes)
    global,     \* ScopeAnalyzer::global
    errors,     \* ScopeAnalyzer::errors
    out,        \* the messages error() printed, each with the place it was raised at
    stack,      \* the continuation of the running check call, innermost first
    result,     \* what the last check call returned
    calls,      \* check calls made on this analyzer
    callLimit,  \* check calls the caller makes
    visited,    \* the places check_node has been called on, in order
    lookups,    \* the find calls made, with what each returned
    history     \* per finished check call: its result and the error list after it

vars == <<program, scopes, current, global, errors, out, stack, result, calls,
          callLimit, visited, lookups, history>>

(***************************************************************************)
(* Places.  <<1, 1, i>> is global i and <<1, 2, i>> function i as phase 1  *)
(* declares them; <<2, i, 1, j>> is parameter j of function i and          *)
(* <<2, i, 2>> its body; <<3, i>> is the initializer of global i; a child  *)
(* appends its index in kids.                                              *)
(***************************************************************************)
RECURSIVE Descend(_, _, _)
Descend(node, path, k) ==
    IF k > Len(path) THEN node ELSE Descend(node.kids[path[k]], path, k + 1)

NodeOf(p, path) ==
    IF path[1] = 2
    THEN Descend(p.functions[path[2]].body, path, 4)
    ELSE Descend(p.globals[path[2]].kids[1], path, 3)

NodeAt(path) == NodeOf(program, path)

(***************************************************************************)
(* class Scope                                                             *)
(***************************************************************************)
NoSymbols == [n \in {} |-> ""]
NewScope(p) == [parent |-> p, symbols |-> NoSymbols, alive |-> TRUE]

\* Scope::add: what it returns
add_ok(symbols, name) == name \notin DOMAIN symbols

\* Scope::add: the symbols after the call (unchanged when it returns false)
add(symbols, name, type) ==
    IF name \in DOMAIN symbols
    THEN symbols
    ELSE [n \in DOMAIN symbols \cup {name} |-> IF n = name THEN type ELSE symbols[n]]

\* a lookup that prefers the outermost binding
RECURSIVE find_outermost(_, _, _)
find_outermost(heap, sc, name) ==
    LET outer == IF heap[sc].parent # 0
                 THEN find_outermost(heap, heap[sc].parent, name) ELSE "" IN
    IF outer # "" THEN outer
    ELSE IF name \in DOMAIN heap[sc].symbols THEN heap[sc].symbols[name]
    ELSE ""

RECURSIVE find(_, _, _)
find(heap, sc, name) ==
    IF name \in DOMAIN heap[sc].symbols THEN heap[sc].symbols[name]
    ELSE IF heap[sc].parent # 0 THEN find(heap, heap[sc].parent, name)
    ELSE ""

\* a redefinition test that looks through the enclosing scopes as well
in_scope_chain(heap, sc, name) == find(heap, sc, name) # ""

\* symbols.count(name)
in_scope(heap, sc, name) == name \in DOMAIN heap[sc].symbols

(***************************************************************************)
(* class ScopeAnalyzer                                                     *)
(***************************************************************************)
Frame(op, i, path) == [op |-> op, i |-> i, path |-> path]

\* error(): one more entry in errors, one more message
Report(err, name, at) ==
    /\ errors' = Append(errors, err)
    /\ out' = Append(out, [err |-> err, name |-> name, at |-> at])

NoReport == UNCHANGED <<errors, out>>

\* enter_scope(): current = new Scope(current)
enter_scope(heap, cur) == Append(heap, NewScope(cur))

\* a leave_scope that deletes the scope and keeps pointing at it
leave_stay(heap, cur) == cur

\* leave_scope(): current = current->parent; delete old
leave_parent(heap, cur) == heap[cur].parent
leave_delete(heap, cur) == [heap EXCEPT ![cur].alive = FALSE]

\* the check_node calls a node makes on its children, in order; check_node
\* returns at once on a null pointer
KidFrames(path, node) ==
    SelectSeq([k \in 1..Len(node.kids) |-> Frame("node", k, path \o <<k>>)],
              LAMBDA f : node.kids[f.i].kind # "null")

\* the iterations of one loop of check
Loop(op, n) == [k \in 1..n |-> Frame(op, k, <<>>)]

\* a single pass: each function is declared only when its body is checked
PlanOnePass(p) ==
    Loop("global", Len(p.globals))
    \o [k \in 1..(2 * Len(p.functions)) |->
            Frame(IF k % 2 = 1 THEN "function" ELSE "check_function", (k + 1) \div 2, <<>>)]
    \o Loop("initializer", Len(p.globals))
    \o <<Frame("return", 0, <<>>)>>

\* global initializers checked before the function bodies
PlanInitializersFirst(p) ==
    Loop("global", Len(p.globals)) \o Loop("function", Len(p.functions))
    \o Loop("initializer", Len(p.globals))
    \o Loop("check_function", Len(p.functions))
    \o <<Frame("return", 0, <<>>)>>

\* the loops of check, in the order check runs them
Plan(p) ==
    Loop("global", Len(p.globals)) \o Loop("function", Len(p.functions))
    \o Loop("check_function", Len(p.functions))
    \o Loop("initializer", Len(p.globals))
    \o <<Frame("return", 0, <<>>)>>

Top == Head(stack)
Running(op) == stack # <<>> /\ Top.op = op
AtNode(kind) == Running("node") /\ NodeAt(Top.path).kind = kind

Fixed == UNCHANGED <<program, global, callLimit>>
Idle == UNCHANGED <<result, calls, history>>

\* the constructor
Construct ==
    /\ scopes = <<NewScope(0)>>
    /\ global = 1
    /\ current = 1
    /\ errors = <<>>
    /\ out = <<>>
    /\ stack = <<>>
    /\ result = "none"
    /\ calls = 0
    /\ visited = <<>>
    /\ lookups = <<>>
    /\ history = <<>>

Init == program \in Programs /\ callLimit = 1 /\ Construct

\* a check that starts from an empty error list
ErrorsCleared(errs) == <<>>

\* the error list check starts with: check does not touch it on entry
ErrorsOnEntry(errs) == errs

\* a caller calls check(&program)
Check ==
    /\ stack = <<>>
    /\ calls < callLimit
    /\ stack' = Plan(program)
    /\ calls' = calls + 1
    /\ errors' = ErrorsOnEntry(errors)
    /\ UNCHANGED <<scopes, current, out, result, visited, lookups, history>>
    /\ Fixed

\* phase 1, one global variable
DeclareGlobal ==
    /\ Running("global")
    /\ LET var == program.globals[Top.i] IN
        /\ scopes' = [scopes EXCEPT ![global].symbols = add(@, var.name, var.type)]
        /\ IF ~add_ok(scopes[global].symbols, var.name)
           THEN Report("VariableRedefined", var.name, <<1, 1, Top.i>>)
           ELSE NoReport
    /\ stack' = Tail(stack)
    /\ UNCHANGED <<current, visited, lookups>> /\ Idle /\ Fixed

\* phase 1, one function
DeclareFunction ==
    /\ Running("function")
    /\ LET func == program.functions[Top.i] IN
        /\ scopes' = [scopes EXCEPT ![global].symbols = add(@, func.name, "function")]
        /\ IF ~add_ok(scopes[global].symbols, func.name)
           THEN Report("FunctionRedefined", func.name, <<1, 2, Top.i>>)
           ELSE NoReport
    /\ stack' = Tail(stack)
    /\ UNCHANGED <<current, visited, lookups>> /\ Idle /\ Fixed

\* a check_function that forgets its leave_scope
FunctionFramesNoLeave(i, func) ==
    [j \in 1..Len(func.params) |-> Frame("param", i, <<2, i, 1, j>>)]
    \o (IF func.body.kind # "null" THEN <<Frame("node", 0, <<2, i, 2>>)>> ELSE <<>>)

\* a check_function that checks the statements of a Block body in the scope
\* of the parameters
FunctionFramesBodyInParamScope(i, func) ==
    [j \in 1..Len(func.params) |-> Frame("param", i, <<2, i, 1, j>>)]
    \o (IF func.body.kind = "Block" THEN KidFrames(<<2, i, 2>>, func.body)
        ELSE IF func.body.kind # "null" THEN <<Frame("node", 0, <<2, i, 2>>)>> ELSE <<>>)
    \o <<Frame("leave", 0, <<>>)>>

\* check_function up to its parameter loop: what is left of it is the
\* parameters, the body and leave_scope
FunctionFrames(i, func) ==
    [j \in 1..Len(func.params) |-> Frame("param", i, <<2, i, 1, j>>)]
    \o (IF func.body.kind # "null" THEN <<Frame("node", 0, <<2, i, 2>>)>> ELSE <<>>)
    \o <<Frame("leave", 0, <<>>)>>

CheckFunction ==
    /\ Running("check_function")
    /\ scopes' = enter_scope(scopes, current)
    /\ current' = Len(scopes')
    /\ stack' = FunctionFrames(Top.i, program.functions[Top.i]) \o Tail(stack)
    /\ NoReport
    /\ UNCHANGED <<visited, lookups>> /\ Idle /\ Fixed

\* one parameter
DeclareParam ==
    /\ Running("param")
    /\ LET param == program.functions[Top.i].params[Top.path[4]] IN
        /\ scopes' = [scopes EXCEPT ![current].symbols = add(@, param.name, param.type)]
        /\ IF ~add_ok(scopes[current].symbols, param.name)
           THEN Report("VariableRedefined", param.name, Top.path)
           ELSE NoReport
    /\ stack' = Tail(stack)
    /\ UNCHANGED <<current, visited, lookups>> /\ Idle /\ Fixed

\* phase 3, one global variable
CheckInitializer ==
    /\ Running("initializer")
    /\ stack' = (IF program.globals[Top.i].kids[1].kind # "null"
                 THEN <<Frame("node", 0, <<3, Top.i>>)>> ELSE <<>>) \o Tail(stack)
    /\ NoReport
    /\ UNCHANGED <<scopes, current, visited, lookups>> /\ Idle /\ Fixed

\* return errors.empty()
Return ==
    /\ Running("return")
    /\ result' = (errors = <<>>)
    /\ history' = Append(history, [result |-> result', errors |-> errors])
    /\ stack' = Tail(stack)
    /\ NoReport
    /\ UNCHANGED <<scopes, current, calls, visited, lookups>> /\ Fixed

(***************************************************************************)
(* check_node, one action per branch of its dispatch.                      *)
(***************************************************************************)
Visit == visited' = Append(visited, Top.path)
Looked(how, from, name, found) ==
    lookups' = Append(lookups, [at |-> Top.path, name |-> name, how |-> how,
                                from |-> from, found |-> found])

\* Block: a scope of its own around the statements
CheckBlock ==
    /\ AtNode("Block")
    /\ scopes' = enter_scope(scopes, current)
    /\ current' = Len(scopes')
    /\ stack' = KidFrames(Top.path, NodeAt(Top.path)) \o <<Frame("leave", 0, <<>>)>>
                \o Tail(stack)
    /\ Visit /\ NoReport
    /\ UNCHANGED lookups /\ Idle /\ Fixed

\* a check that gives up on a redefined declaration
VariableFramesUnlessRedefined(path, node, redefined) ==
    IF redefined THEN <<>> ELSE KidFrames(path, node)

\* the check_node call on the initializer of a declaration
VariableFrames(path, node, redefined) == KidFrames(path, node)

\* VariableNode: declare in the current scope, then check the initializer
CheckVariable ==
    /\ AtNode("Variable")
    /\ LET var == NodeAt(Top.path)
           redefined == in_scope(scopes, current, var.name) IN
        /\ IF redefined
           THEN /\ Report("VariableRedefined", var.name, Top.path)
                /\ UNCHANGED scopes
           ELSE /\ NoReport
                /\ scopes' = [scopes EXCEPT
                                ![current].symbols = add(@, var.name, var.type)]
        /\ stack' = VariableFrames(Top.path, var, redefined) \o Tail(stack)
    /\ Visit
    /\ UNCHANGED <<current, lookups>> /\ Idle /\ Fixed

\* the scope a call's name is looked up in
CallScope(cur, glob) == glob

\* what find must return for a call to be accepted
IsFunction(type) == type = "function"

\* CallNode: the name must be a function of the global scope
CheckCall ==
    /\ AtNode("Call")
    /\ LET call == NodeAt(Top.path)
           from == CallScope(current, global)
           found == find(scopes, from, call.name) IN
        /\ Looked("call", from, call.name, found)
        /\ IF ~IsFunction(found)
           THEN Report("UndefinedFunction", call.name, Top.path)
           ELSE NoReport
        /\ stack' = KidFrames(Top.path, call) \o Tail(stack)
    /\ Visit
    /\ UNCHANGED <<scopes, current>> /\ Idle /\ Fixed

\* NameNode
CheckName ==
    /\ AtNode("Name")
    /\ LET name == NodeAt(Top.path).name
           found == find(scopes, current, name) IN
        /\ Looked("name", current, name, found)
        /\ IF found = ""
           THEN Report("UndeclaredVariable", name, Top.path)
           ELSE NoReport
    /\ stack' = Tail(stack)
    /\ Visit
    /\ UNCHANGED <<scopes, current>> /\ Idle /\ Fixed

\* AssignmentNode: the value first; the target is looked up after it
CheckAssignment ==
    /\ AtNode("Assignment")
    /\ stack' = KidFrames(Top.path, NodeAt(Top.path))
                \o <<Frame("target", 0, Top.path)>> \o Tail(stack)
    /\ Visit /\ NoReport
    /\ UNCHANGED <<scopes, current, lookups>> /\ Idle /\ Fixed

AssignmentTarget ==
    /\ Running("target")
    /\ LET name == NodeAt(Top.path).name
           found == find(scopes, current, name) IN
        /\ Looked("target", current, name, found)
        /\ IF found = ""
           THEN Report("UndeclaredVariable", name, Top.path)
           ELSE NoReport
    /\ stack' = Tail(stack)
    /\ UNCHANGED <<scopes, current, visited>> /\ Idle /\ Fixed

\* the branches that only pass the call on to the children
PassOn ==
    /\ stack' = KidFrames(Top.path, NodeAt(Top.path)) \o Tail(stack)
    /\ Visit /\ NoReport
    /\ UNCHANGED <<scopes, current, lookups>> /\ Idle /\ Fixed

CheckReturn == AtNode("Return") /\ PassOn
CheckIf == AtNode("If") /\ PassOn
CheckWhile == AtNode("While") /\ PassOn
CheckBinaryOp == AtNode("BinaryOp") /\ PassOn
\* LiteralNode matches no branch
CheckLiteral == AtNode("Literal") /\ PassOn

\* a for loop that closes its scope before it checks the body
ForFramesBodyOutside(path, node) ==
    KidFrames(path, [node EXCEPT !.kids[4] = Null]) \o <<Frame("leave", 0, <<>>)>>
    \o (IF node.kids[4].kind # "null" THEN <<Frame("node", 0, path \o <<4>>)>> ELSE <<>>)

\* what is left of the ForNode branch after its enter_scope: the initializer,
\* the condition, the increment and the body, each if present, and leave_scope
ForFrames(path, node) == KidFrames(path, node) \o <<Frame("leave", 0, <<>>)>>

\* ForNode: one scope around initializer, condition, increment and body
CheckFor ==
    /\ AtNode("For")
    /\ scopes' = enter_scope(scopes, current)
    /\ current' = Len(scopes')
    /\ stack' = ForFrames(Top.path, NodeAt(Top.path)) \o Tail(stack)
    /\ Visit /\ NoReport
    /\ UNCHANGED lookups /\ Idle /\ Fixed

\* the leave_scope() that ends a block, a for loop or check_function
LeaveScope ==
    /\ Running("leave")
    /\ current' = leave_parent(scopes, current)
    /\ scopes' = leave_delete(scopes, current)
    /\ stack' = Tail(stack)
    /\ NoReport
    /\ UNCHANGED <<visited, lookups>> /\ Idle /\ Fixed

Next ==
    \/ Check
    \/ DeclareGlobal
    \/ DeclareFunction
    \/ CheckFunction
    \/ DeclareParam
    \/ CheckInitializer
    \/ Return
    \/ CheckBlock
    \/ CheckVariable
    \/ CheckCall
    \/ CheckName
    \/ CheckAssignment
    \/ AssignmentTarget
    \/ CheckReturn
    \/ CheckIf
    \/ CheckWhile
    \/ CheckBinaryOp
    \/ CheckLiteral
    \/ CheckFor
    \/ LeaveScope

Spec == Init /\ [][Next]_vars

\* the same analyzer object used for several check calls
InitReuse ==
    /\ program \in ParamPrograms \cup StatementPrograms \cup InitializerPrograms
    /\ callLimit = MaxChecks
    /\ Construct

SpecReuse == InitReuse /\ [][Next]_vars

(***************************************************************************)
(* The lexical structure of a program, read off the tree alone: what the   *)
(* properties below compare the analyzer's run with.                       *)
(***************************************************************************)
Done == stack = <<>> /\ calls >= 1

KidsOf(node) == {k \in 1..Len(node.kids) : node.kids[k].kind # "null"}

RECURSIVE SubPaths(_, _)
SubPaths(node, path) ==
    {path} \cup UNION {SubPaths(node.kids[k], path \o <<k>>) : k \in KidsOf(node)}

\* every node a function body or a global initializer holds
AllPaths(p) ==
    UNION {SubPaths(p.functions[i].body, <<2, i, 2>>) :
            i \in {i \in 1..Len(p.functions) : p.functions[i].body.kind # "null"}}
    \cup UNION {SubPaths(p.globals[i].kids[1], <<3, i>>) :
            i \in {i \in 1..Len(p.globals) : p.globals[i].kids[1].kind # "null"}}

PathsOfKind(p, kind) == {q \in AllPaths(p) : NodeOf(p, q).kind = kind}

IsPrefix(a, b) == Len(a) <= Len(b) /\ SubSeq(b, 1, Len(a)) = a
ProperPrefix(a, b) == Len(a) < Len(b) /\ IsPrefix(a, b)
\* a is left of b: at the first index where they differ a is smaller
LeftOf(a, b) ==
    \E k \in 1..Len(a) :
        /\ k <= Len(b)
        /\ SubSeq(a, 1, k - 1) = SubSeq(b, 1, k - 1)
        /\ a[k] < b[k]
\* a comes before b when both take effect on entry to their node
Precedes(a, b) == ProperPrefix(a, b) \/ LeftOf(a, b)

\* Lexical scopes: <<0>> is the global scope, <<2, i>> the parameter scope of
\* function i, and the place of a Block or For node the scope it opens.
GlobalScope == <<0>>
RootLen(path) == IF path[1] = 2 THEN 3 ELSE 2
Enclosing(p, path) ==
    {GlobalScope}
    \cup (IF path[1] = 2 THEN {<<2, path[2]>>} ELSE {})
    \cup {SubSeq(path, 1, k) : k \in
            {k \in RootLen(path)..(Len(path) - 1) :
                NodeOf(p, SubSeq(path, 1, k)).kind \in {"Block", "For"}}}
\* the scope a node is checked in: the innermost enclosing one
ScopeOf(p, path) ==
    CHOOSE q \in Enclosing(p, path) : \A r \in Enclosing(p, path) : Len(r) <= Len(q)

\* every declaration of the program
Decls(p) ==
    {[name |-> p.globals[i].name, type |-> p.globals[i].type, what |-> "global",
      scope |-> GlobalScope, at |-> <<1, 1, i>>] : i \in 1..Len(p.globals)}
    \cup {[name |-> p.functions[i].name, type |-> "function", what |-> "function",
      scope |-> GlobalScope, at |-> <<1, 2, i>>] : i \in 1..Len(p.functions)}
    \cup UNION {{[name |-> p.functions[i].params[j].name,
                  type |-> p.functions[i].params[j].type, what |-> "param",
                  scope |-> <<2, i>>, at |-> <<2, i, 1, j>>] :
                    j \in 1..Len(p.functions[i].params)} : i \in 1..Len(p.functions)}
    \cup {[name |-> NodeOf(p, q).name, type |-> NodeOf(p, q).type, what |-> "local",
      scope |-> ScopeOf(p, q), at |-> q] : q \in PathsOfKind(p, "Variable")}

FunctionNames(p) == {p.functions[i].name : i \in 1..Len(p.functions)}
GlobalVarNames(p) == {p.globals[i].name : i \in 1..Len(p.globals)}

\* d is a second declaration of its name in its scope
IsDuplicate(p, d) ==
    \E e \in Decls(p) : e.name = d.name /\ e.scope = d.scope /\ Precedes(e.at, d.at)
Duplicates(p) == {d \in Decls(p) : IsDuplicate(p, d)}
NoConflicts(p) == Duplicates(p) = {}

\* a declaration of the name made, in an enclosing scope, before the name at
\* place q is looked up; how = "target" looks up after the node's children
DeclaredBefore(d, q, how) ==
    \/ d.what # "local"
    \/ Precedes(d.at, q)
    \/ how = "target" /\ ProperPrefix(q, d.at)
VisibleDecls(p, q, how) ==
    {d \in Decls(p) : /\ d.name = NodeOf(p, q).name
                      /\ d.scope \in Enclosing(p, q)
                      /\ DeclaredBefore(d, q, how)}

NoFreeNames(p) ==
    /\ \A q \in PathsOfKind(p, "Name") : VisibleDecls(p, q, "name") # {}
    /\ \A q \in PathsOfKind(p, "Assignment") : VisibleDecls(p, q, "target") # {}
    /\ \A q \in PathsOfKind(p, "Call") : NodeOf(p, q).name \in FunctionNames(p)

ErrorsAt(q) == {k \in 1..Len(out) : out[k].at = q}
Raised(err, q) == \E k \in ErrorsAt(q) : out[k].err = err

(***************************************************************************)
(* C1: a program with no two declarations of a name in one scope and a     *)
(* visible declaration for every name it uses passes: check returns true   *)
(* and errorCount() is 0.                                                  *)
(***************************************************************************)
CleanProgramPasses ==
    (Done /\ NoConflicts(program) /\ NoFreeNames(program))
        => (result = TRUE /\ Len(errors) = 0)

(***************************************************************************)
(* C2 as stated: a call of a name some FunctionDecl of the program         *)
(* declares never records UndefinedFunction.                               *)
(***************************************************************************)
DeclaredFunctionCallAccepted ==
    \A k \in 1..Len(out) :
        out[k].err = "UndefinedFunction" => out[k].name \notin FunctionNames(program)

(***************************************************************************)
(* C2 amended: a call of a name that some FunctionDecl declares and no     *)
(* global variable declares never records UndefinedFunction, wherever the  *)
(* function is declared.                                                   *)
(***************************************************************************)
UnsharedFunctionCallAccepted ==
    \A k \in 1..Len(out) :
        out[k].err = "UndefinedFunction" =>
            out[k].name \notin (FunctionNames(program) \ GlobalVarNames(program))

\* a call in the first function of a function declared after it was accepted
ForwardCallAccepted ==
    /\ Done
    /\ \E q \in PathsOfKind(program, "Call") :
        /\ q[1] = 2 /\ q[2] = 1
        /\ \E i \in 2..Len(program.functions) :
                program.functions[i].name = NodeOf(program, q).name
        /\ NodeOf(program, q).name \notin GlobalVarNames(program)
        /\ q \in {visited[k] : k \in 1..Len(visited)}
        /\ ~Raised("UndefinedFunction", q)

(***************************************************************************)
(* C3: a call of a name declared as a global variable and not as a         *)
(* function records UndefinedFunction, whatever the variable's type tag.   *)
(***************************************************************************)
GlobalVariableCallRejected ==
    Done =>
        \A q \in PathsOfKind(program, "Call") :
            NodeOf(program, q).name \in GlobalVarNames(program) \ FunctionNames(program)
                => Raised("UndefinedFunction", q)

(***************************************************************************)
(* C4 as stated: a program with exactly one duplicate declaration in one   *)
(* scope and no other fault ends with errorCount() 1, the error being      *)
(* VariableRedefined and naming the duplicated symbol.                     *)
(***************************************************************************)
TheDuplicate(p) == CHOOSE d \in Duplicates(p) : TRUE
OneDuplicate(p) == Cardinality(Duplicates(p)) = 1

OneDuplicateOneVariableRedefined ==
    (Done /\ OneDuplicate(program) /\ NoFreeNames(program)) =>
        /\ Len(errors) = 1
        /\ errors[1] = "VariableRedefined"
        /\ out[1].name = TheDuplicate(program).name

(***************************************************************************)
(* C4 amended: a program with exactly one duplicate declaration in one     *)
(* scope ends with exactly one redefinition error, raised at the duplicate *)
(* and naming it: VariableRedefined for a global variable, a parameter or  *)
(* a local declaration, FunctionRedefined for a function declaration.      *)
(***************************************************************************)
Redefinitions == {k \in 1..Len(out) :
                    out[k].err \in {"VariableRedefined", "FunctionRedefined"}}

OneDuplicateOneRedefinition ==
    (Done /\ OneDuplicate(program)) =>
        LET d == TheDuplicate(program) IN
        /\ Cardinality(Redefinitions) = 1
        /\ \A k \in Redefinitions :
            /\ out[k].at = d.at
            /\ out[k].name = d.name
            /\ errors[k] = IF d.what = "function" THEN "FunctionRedefined"
                           ELSE "VariableRedefined"

\* a second function of one name has been reported, and nothing else
FunctionDuplicateReported ==
    /\ Done /\ OneDuplicate(program) /\ NoFreeNames(program)
    /\ TheDuplicate(program).what = "function"
    /\ errors = <<"FunctionRedefined">>

(***************************************************************************)
(* C5: after one check the error list is in discovery order: phase 1       *)
(* (globals, then functions), then phase 2 function by function            *)
(* (parameters before the body, the body depth first, left to right), then *)
(* phase 3 global by global; and check returns true exactly when the list  *)
(* is empty.  An error of a node follows the errors of its children only   *)
(* for an assignment, whose target is looked up last.                      *)
(***************************************************************************)
DiscoveryOrder ==
    Done =>
        /\ Len(errors) = Len(out)
        /\ \A k \in 1..Len(out) : errors[k] = out[k].err
        /\ \A j, k \in 1..Len(out) :
            j < k =>
                /\ out[j].at # out[k].at
                /\ ~LeftOf(out[k].at, out[j].at)
                /\ ProperPrefix(out[k].at, out[j].at) =>
                        NodeOf(program, out[k].at).kind = "Assignment"
        /\ result = (Len(errors) = 0)

\* errors of phase 1, of both functions in phase 2 and of phase 3 in one list
ErrorsInEveryPhase ==
    /\ Done
    /\ \E a, b, c, d \in 1..Len(out) :
        /\ out[a].at[1] = 1
        /\ out[b].at[1] = 2 /\ out[b].at[2] = 1
        /\ out[c].at[1] = 2 /\ out[c].at[2] = 2
        /\ out[d].at[1] = 3
    /\ result = FALSE

(***************************************************************************)
(* C6: a second check(P) on the same analyzer returns what the first one,  *)
(* on the fresh analyzer, returned and leaves the same error list.         *)
(***************************************************************************)
SecondCheckAsFresh ==
    Len(history) >= 2 => history[2] = history[1]

(***************************************************************************)
(* C6 amended: only the scopes pushed during a check call are transient;   *)
(* the global scope and the error list live as long as the analyzer.  A    *)
(* check(P) on an analyzer that has already checked P keeps the errors of  *)
(* the earlier calls and appends VariableRedefined for every global of P,  *)
(* FunctionRedefined for every function of P, and then the phase 2 and     *)
(* phase 3 errors of the first call; it returns true exactly when the      *)
(* whole list is empty.                                                    *)
(***************************************************************************)
FirstCallLater ==
    LET first == SubSeq(out, 1, Len(history[1].errors))
        later == SelectSeq(first, LAMBDA e : e.at[1] # 1) IN
    [k \in 1..Len(later) |-> later[k].err]
AllRedefined ==
    [k \in 1..Len(program.globals) |-> "VariableRedefined"]
    \o [k \in 1..Len(program.functions) |-> "FunctionRedefined"]

SecondCheckCarriesOver ==
    /\ \A k \in 2..Len(history) :
        /\ history[k].errors = history[k - 1].errors \o AllRedefined \o FirstCallLater
        /\ history[k].result = (Len(history[k].errors) = 0)
    /\ stack = <<>> => (current = global /\ {sc \in 1..Len(scopes) : scopes[sc].alive} = {global})

\* a program that passed on the fresh analyzer fails on the used one
PassedThenFailed ==
    /\ Len(history) >= 2
    /\ history[1].result = TRUE
    /\ history[2].result = FALSE
    /\ Len(history[2].errors) >= 2

(***************************************************************************)
(* C7: a name read or assigned whose declarations all sit in scopes that   *)
(* do not enclose the place of use records UndeclaredVariable.             *)
(***************************************************************************)
Uses(p) == PathsOfKind(p, "Name") \cup PathsOfKind(p, "Assignment")
BoundOnlyElsewhere(p, q) ==
    /\ \E d \in Decls(p) : d.name = NodeOf(p, q).name
    /\ \A d \in Decls(p) : d.name = NodeOf(p, q).name => d.scope \notin Enclosing(p, q)

NoSidewaysLeak ==
    Done =>
        \A q \in Uses(program) :
            BoundOnlyElsewhere(program, q) => Raised("UndeclaredVariable", q)

\* a use after the block, the for loop or the function that declared the name
SiblingUseRejected ==
    /\ Done
    /\ \E q \in Uses(program) :
        /\ BoundOnlyElsewhere(program, q)
        /\ \E d \in Decls(program) :
            /\ d.name = NodeOf(program, q).name
            /\ d.what = "local"
            /\ d.type # ""
            /\ Precedes(d.at, q)
        /\ Raised("UndeclaredVariable", q)

(***************************************************************************)
(* C8 as stated: a declaration that shadows one of an enclosing scope      *)
(* records no error, and every lookup of the name made in the inner scope  *)
(* after it, a call's included, resolves to the inner binding.             *)
(***************************************************************************)
\* the declaration a lookup at q resolves to by the lexical rule: the first
\* one of the innermost enclosing scope that has declared the name by then
Innermost(p, q, how) ==
    {d \in VisibleDecls(p, q, how) :
        /\ ~IsDuplicate(p, d)
        /\ \A e \in VisibleDecls(p, q, how) : Len(e.scope) <= Len(d.scope)}

Shadows(p, d) ==
    /\ d.what \in {"local", "param"}
    /\ ~IsDuplicate(p, d)
    /\ \E e \in Decls(p) :
        /\ e.name = d.name
        /\ e.scope # d.scope
        /\ e.scope \in Enclosing(p, d.at)
        /\ DeclaredBefore(e, d.at, "name")

LookupHow(how) == IF how = "target" THEN "target" ELSE "name"
ResolvesInward(hows) ==
    Done =>
        \A d \in {d \in Decls(program) : Shadows(program, d)} :
            /\ ErrorsAt(d.at) = {}
            /\ \A k \in 1..Len(lookups) :
                (/\ lookups[k].how \in hows
                 /\ d \in Innermost(program, lookups[k].at, LookupHow(lookups[k].how)))
                    => lookups[k].found = d.type

EveryLookupResolvesInward == ResolvesInward({"name", "target", "call"})

(***************************************************************************)
(* C8 amended: a declaration that shadows one of an enclosing scope        *)
(* records no error, and every NameRef and Assignment-target lookup of the *)
(* name made in the inner scope after it resolves to the inner binding; a  *)
(* Call of the name is still resolved in the global scope.                 *)
(***************************************************************************)
VariableLookupResolvesInward ==
    /\ ResolvesInward({"name", "target"})
    /\ \A k \in 1..Len(lookups) :
        lookups[k].how = "call" => lookups[k].from = global

\* a lookup that found the inner tag where the outer binding has another
ShadowedLookup ==
    /\ Done
    /\ \E d \in {d \in Decls(program) : Shadows(program, d)} :
        \E k \in 1..Len(lookups) :
            /\ lookups[k].how = "name"
            /\ d \in Innermost(program, lookups[k].at, "name")
            /\ lookups[k].found = d.type
            /\ \E e \in VisibleDecls(program, lookups[k].at, "name") :
                    e.scope # d.scope /\ e.type # d.type /\ e.type # ""

(***************************************************************************)
(* C9: check never stops at an error: when it returns, every node of every *)
(* function body and every global initializer has been checked exactly     *)
(* once.                                                                   *)
(***************************************************************************)
Visits(q) == {k \in 1..Len(visited) : visited[k] = q}

EveryNodeCheckedOnce ==
    Done =>
        /\ \A q \in AllPaths(program) : Cardinality(Visits(q)) = 1
        /\ Len(visited) = Cardinality(AllPaths(program))

\* the initializer of a redefined declaration was checked and added an error
CheckedPastAnError ==
    /\ Done
    /\ \E j, k \in 1..Len(out) :
        /\ j < k
        /\ out[j].err = "VariableRedefined"
        /\ out[k].at = out[j].at \o <<1>>
        /\ Visits(out[k].at) # {}

(***************************************************************************)
(* C10: scopes form a stack.  The live scopes are exactly the chain from   *)
(* current up to the global scope, newest first, so leave_scope always     *)
(* deletes the newest live scope and no lookup or declaration reaches a    *)
(* deleted one; each live scope but the global one has exactly one         *)
(* leave_scope pending; the global scope is never deleted; current is the  *)
(* global scope when a function check starts, throughout phase 1 and       *)
(* phase 3 (initializers being expressions) and when check has returned.   *)
(***************************************************************************)
RECURSIVE Chain(_, _)
Chain(heap, sc) == IF sc = 0 THEN <<>> ELSE <<sc>> \o Chain(heap, heap[sc].parent)

Alive == {sc \in 1..Len(scopes) : scopes[sc].alive}
Pending(op) == {k \in 1..Len(stack) : stack[k].op = op}
InPhase3 == stack # <<>> /\ Pending("check_function") = {} /\ Pending("function") = {}
                         /\ Pending("global") = {} /\ Pending("param") = {}
                         /\ Pending("leave") = {}

StackDiscipline ==
    LET chain == Chain(scopes, current) IN
    /\ current \in 1..Len(scopes)
    /\ {chain[k] : k \in 1..Len(chain)} = Alive
    /\ chain[Len(chain)] = global
    /\ \A k \in 1..(Len(chain) - 1) : chain[k] > chain[k + 1]
    /\ \A sc \in Alive : sc <= current
    /\ Cardinality(Pending("leave")) = Len(chain) - 1
    /\ (stack = <<>> \/ Top.op \in {"global", "function", "check_function",
                                    "initializer", "return"}) => current = global
    /\ InPhase3 => current = global

\* three scopes deep (parameters, a block, a block in it) after one was closed
NestedScopes ==
    /\ Len(Chain(scopes, current)) >= 4
    /\ \E sc \in 1..Len(scopes) : ~scopes[sc].alive

(***************************************************************************)
(* C11: a For node pushes exactly one scope for the node, checks the       *)
(* initializer, the condition, the increment and the body, each when       *)
(* present, in that order inside it, and pops it when the node is done: a  *)
(* name the initializer declares is bound in that scope while the          *)
(* condition, the increment and the body are checked, their lookups of it  *)
(* resolve to it, and no lookup of a statement that follows the loop does. *)
(***************************************************************************)
\* the Scope object that stands for the lexical scope s while the node at q is
\* checked: the chain from current lists the enclosing scopes innermost first
Rank(p, q, s) == Cardinality({e \in Enclosing(p, q) : Len(e) <= Len(s)})
ScopeObject(q, s) ==
    LET chain == Chain(scopes, current) IN chain[Len(chain) - Rank(program, q, s) + 1]

\* the declarations the initializer of the For node at f makes in the loop's scope
InitDecls(p, f) == {d \in Decls(p) : d.scope = f /\ IsPrefix(f \o <<1>>, d.at)}
\* q is in the condition, the increment or the body of the For node at f
PastInit(f, q) == ProperPrefix(f, q) /\ q[Len(f) + 1] >= 2
\* what a lookup at q finds by the lexical rule
Resolution(p, q, how) ==
    IF Innermost(p, q, how) = {} THEN ""
    ELSE (CHOOSE d \in Innermost(p, q, how) : TRUE).type
VariableLookups == {k \in 1..Len(lookups) : lookups[k].how \in {"name", "target"}}

\* one Scope object per lexical scope around the node that is checked next,
\* and the loop's one holds the initializer's names past the initializer
ForScopeOpen ==
    Running("node") =>
        LET q == Top.path IN
        /\ Len(Chain(scopes, current)) = Cardinality(Enclosing(program, q))
        /\ \A f \in PathsOfKind(program, "For") :
            PastInit(f, q) =>
                \A d \in InitDecls(program, f) :
                    /\ d.name \in DOMAIN scopes[ScopeObject(q, f)].symbols
                    /\ ~IsDuplicate(program, d) =>
                            scopes[ScopeObject(q, f)].symbols[d.name] = d.type

\* the parts of a loop are checked after the node and one after the other
ForOrder ==
    \A f \in PathsOfKind(program, "For") :
        LET node == NodeOf(program, f) IN
        /\ Cardinality(Visits(f)) = 1
        /\ \A j \in KidsOf(node) :
            \A a \in SubPaths(node.kids[j], f \o <<j>>) :
                /\ Cardinality(Visits(a)) = 1
                /\ \A ka \in Visits(a) : \A kf \in Visits(f) : kf < ka
                /\ \A k \in KidsOf(node) :
                    j < k => \A b \in SubPaths(node.kids[k], f \o <<k>>) :
                                \A ka \in Visits(a), kb \in Visits(b) : ka < kb

ForScope ==
    /\ ForScopeOpen
    /\ Done =>
        /\ ForOrder
        /\ Len(scopes) = 1 + calls * (Len(program.functions)
                                      + Cardinality(PathsOfKind(program, "Block"))
                                      + Cardinality(PathsOfKind(program, "For")))
        /\ \A f \in PathsOfKind(program, "For") :
            \A d \in InitDecls(program, f) :
                \A k \in VariableLookups :
                    LET q == lookups[k].at
                        how == LookupHow(lookups[k].how) IN
                    lookups[k].name = d.name =>
                        /\ (PastInit(f, q) /\ d \in Innermost(program, q, how))
                                => lookups[k].found = d.type
                        /\ LeftOf(f, q) =>
                            /\ d \notin VisibleDecls(program, q, how)
                            /\ lookups[k].found = Resolution(program, q, how)
                            /\ VisibleDecls(program, q, how) = {}
                                    => Raised("UndeclaredVariable", q)

\* a loop whose condition, increment and body each found the initializer's
\* name, where nothing else declares it, and a statement after it that did not
LoopVariableSeenInsideOnly ==
    /\ Done
    /\ \E f \in PathsOfKind(program, "For") :
        \E d \in InitDecls(program, f) :
            /\ d.type # ""
            /\ \A e \in Decls(program) : e.name = d.name => e = d
            /\ \A j \in 2..4 :
                \E k \in VariableLookups :
                    /\ lookups[k].name = d.name
                    /\ IsPrefix(f \o <<j>>, lookups[k].at)
                    /\ lookups[k].found = d.type
            /\ \E k \in VariableLookups :
                /\ lookups[k].name = d.name
                /\ LeftOf(f, lookups[k].at)
                /\ lookups[k].found = ""
                /\ Raised("UndeclaredVariable", lookups[k].at)

(***************************************************************************)
(* C12 as stated: the parameters of a function are bound in a scope of     *)
(* their own, the parent of the scope the function's body Block opens, so  *)
(* a VariableDecl at the top level of a Block body with the name of a      *)
(* parameter records no VariableRedefined error and shadows the parameter  *)
(* for the rest of the body.                                               *)
(***************************************************************************)
BlockBodies(p) == {i \in 1..Len(p.functions) : p.functions[i].body.kind = "Block"}
Body(i) == <<2, i, 2>>
ParamNames(p, i) == {p.functions[i].params[j].name : j \in 1..Len(p.functions[i].params)}
\* the first parameter of function i with the name
ParamOf(p, i, name) ==
    CHOOSE d \in Decls(p) :
        d.what = "param" /\ d.scope = <<2, i>> /\ d.name = name /\ ~IsDuplicate(p, d)
\* the declarations at the top level of the body of function i that take the
\* name of a parameter
TopLevelRedeclarations(p, i) ==
    {d \in Decls(p) : /\ d.what = "local"
                      /\ Len(d.at) = 4
                      /\ IsPrefix(Body(i), d.at)
                      /\ d.name \in ParamNames(p, i)}

\* while a statement at the top level of a Block body is the next to be
\* checked: current is the body's scope, its parent holds the parameters and
\* nothing else, and the parent of that one is the global scope
ParamScopeIsParent ==
    (Running("node") /\ Top.path[1] = 2 /\ Len(Top.path) = 4) =>
        LET i == Top.path[2]
            params == scopes[current].parent IN
        i \in BlockBodies(program) =>
            /\ params # 0
            /\ scopes[params].alive
            /\ scopes[params].parent = global
            /\ DOMAIN scopes[params].symbols = ParamNames(program, i)
            /\ \A n \in ParamNames(program, i) :
                    scopes[params].symbols[n] = ParamOf(program, i, n).type

\* d records no VariableRedefined and the lookups of its name in the rest of
\* the body never resolve to the parameter
ShadowsParam(i, d) ==
    /\ ~Raised("VariableRedefined", d.at)
    /\ \A k \in VariableLookups :
        LET q == lookups[k].at
            how == LookupHow(lookups[k].how) IN
        (lookups[k].name = d.name /\ IsPrefix(Body(i), q) /\ Precedes(d.at, q)) =>
            /\ ParamOf(program, i, d.name) \notin Innermost(program, q, how)
            /\ lookups[k].found = Resolution(program, q, how)
            /\ d \in Innermost(program, q, how) => lookups[k].found = d.type

BodyDeclShadowsParam ==
    /\ ParamScopeIsParent
    /\ Done =>
        \A i \in BlockBodies(program) :
            \A d \in TopLevelRedeclarations(program, i) : ShadowsParam(i, d)

(***************************************************************************)
(* C12 amended: the parameters of a function are bound in a scope of their *)
(* own, the parent of the scope the function's body Block opens, so a      *)
(* VariableDecl at the top level of a Block body with the name of a        *)
(* parameter, when no declaration before it in the body's own scope has    *)
(* that name, records no VariableRedefined error and shadows the parameter *)
(* for the rest of the body.                                               *)
(***************************************************************************)
FirstBodyDeclShadowsParam ==
    /\ ParamScopeIsParent
    /\ Done =>
        \A i \in BlockBodies(program) :
            \A d \in TopLevelRedeclarations(program, i) :
                ~IsDuplicate(program, d) => ShadowsParam(i, d)

\* a local that took the name of a parameter with another type tag, without
\* an error, and a later lookup in the body that found the local's tag
ParameterShadowed ==
    /\ Done
    /\ \E i \in BlockBodies(program) :
        \E d \in TopLevelRedeclarations(program, i) :
            /\ ~IsDuplicate(program, d)
            /\ d.type \notin {"", ParamOf(program, i, d.name).type}
            /\ ErrorsAt(d.at) = {}
            /\ \E k \in VariableLookups :
                /\ lookups[k].name = d.name
                /\ Precedes(d.at, lookups[k].at)
                /\ d \in Innermost(program, lookups[k].at, "name")
                /\ lookups[k].found = d.type
====
